---- MODULE Spec2Model ----
(***************************************************************************)
(* eosio::state_history::connection (src/src/state_history_connection.hpp) *)
(* as a state machine: the asynchronous operations of one connection, the  *)
(* completion handlers that run when they finish, the public API and the   *)
(* calls made on the callback sink.                                        *)
(*                                                                         *)
(* Transport: an operation is "pending" while in flight; the transport     *)
(* completes it with or without an error code ("ok" / "err") and queues    *)
(* its handler; the handler runs later, as a step of its own, with the     *)
(* error code the operation completed with.  Closing the socket aborts     *)
(* every operation still pending on it; an operation started on a socket   *)
(* that cannot carry it completes with an error.                           *)
(*                                                                         *)
(* Sink: received_abi() and received() may call send()/request_blocks()    *)
(* on the connection, return, or throw; closed() returns, and closing the  *)
(* socket does not fail, so close() itself never throws.                   *)
(***************************************************************************)
EXTENDS Integers, Sequences, FiniteSets, TLC

\* ---------------------------------------------------------------- bounds
\* payloads the remote delivers on successful reads
MaxPayloads == 2
\* send() invocations (from the caller and from sink callbacks together)
MaxSends == 2
\* close() invocations made directly by the caller
MaxUserCloses == 1

\* ------------------------------------------------------------- constants
\* 0xffff'ffff, the largest uint32: the model's unsigned range ends at the
\* largest integer TLC represents; only the order of block numbers is used
Max32 == 2147483647

\* ------------------------------------------------------------ input sets
StartNums == {0, 42, Max32}
Pos1 == [block_num |-> 7, block_id |-> "id7"]
PositionLists == {<<>>, <<Pos1>>}
TypeNames == {"result", "request"}

\* abieos::check_abi_version as used at line 100: the 1.x family is supported
check_abi_version(version) == version = "eosio::abi/1.1"

\* the first payload, as receive_abi sees it
AbiPayload(json_ok, version, types, convert_ok) ==
    [json_ok |-> json_ok, version |-> version, types |-> types, convert_ok |-> convert_ok]
AbiPayloads ==
    {AbiPayload(TRUE, "eosio::abi/1.1", {}, TRUE),
     AbiPayload(TRUE, "eosio::abi/1.1", TypeNames, TRUE),
     AbiPayload(FALSE, "", {}, TRUE),
     AbiPayload(TRUE, "eosio::abi/9.0", TypeNames, TRUE),
     AbiPayload(TRUE, "eosio::abi/1.1", TypeNames, FALSE)}

\* a later payload, as receive_result sees it: whether from_bin succeeds and
\* the alternative the variant holds afterwards
ResultPayloads == [decode_ok : BOOLEAN, kind : {"status", "blocks"}]

\* ------------------------------------------------------------- requests
GetStatusRequest == [type |-> "get_status_request_v0"]

GetBlocksRequest(start, end, inflight, positions, irr, fb, ft, fd) ==
    [type |-> "get_blocks_request_v0", start_block_num |-> start, end_block_num |-> end,
     max_messages_in_flight |-> inflight, have_positions |-> positions,
     irreversible_only |-> irr, fetch_block |-> fb, fetch_traces |-> ft, fetch_deltas |-> fd]

NoRequest == [type |-> "none"]

\* calls a caller or a sink callback makes on the connection
NoCall == [api |-> "none"]
SendCall(req, encodes) == [api |-> "send", req |-> req, encodes |-> encodes]
RequestBlocksCall(start, positions, encodes) ==
    [api |-> "request_blocks", start |-> start, positions |-> positions, encodes |-> encodes]
RequestBlocksStatusCall(status, start, positions, encodes) ==
    [api |-> "request_blocks_status", status |-> status, start |-> start,
     positions |-> positions, encodes |-> encodes]

\* get_status_result_v0, the four block bounds request_blocks reads
StatusResult(tb, te, cb, ce) ==
    [trace_begin_block |-> tb, trace_end_block |-> te,
     chain_state_begin_block |-> cb, chain_state_end_block |-> ce]
BlockBounds == {0, 5, 10}
StatusResults ==
    {StatusResult(tb, te, cb, ce) : tb \in BlockBounds, te \in BlockBounds,
                                    cb \in BlockBounds, ce \in BlockBounds}
StatusStarts == {1, 7, Max32}
RequestBlocksStatusCalls ==
    {RequestBlocksStatusCall(st, n, <<>>, TRUE) : st \in StatusResults, n \in StatusStarts}

\* the calls made while the connection runs
ApiCalls ==
    {SendCall(GetStatusRequest, TRUE), SendCall(GetStatusRequest, FALSE),
     RequestBlocksCall(42, <<>>, TRUE)}
\* the calls made to check request building
RequestBlocksCalls ==
    {RequestBlocksCall(n, ps, e) : n \in StartNums, ps \in PositionLists, e \in BOOLEAN}

\* ---------------------------------------------------------------- state
VARIABLES
    hasSink,      \* the connection was constructed with a sink
    callbacks,    \* the sink reference is held (std::shared_ptr non-null)
    sock,         \* stream: "closed", "open", "connected", "ws" (handshake done)
    have_abi,
    abi_version,  \* abi.version
    abi_types,    \* keys of the registry
    resolve,      \* the async_resolve:   "none", "pending", "ok", "err", "done"
    connectOp,    \* the async_connect:   same
    handshake,    \* the async_handshake: same
    reads,        \* async_read operations, counted by status
    writes,       \* async_write operations, counted by status
    sinkLog,      \* the calls made on the sink, in order
    nClose,       \* close() invocations
    nUserClose,   \* close() invocations by the caller
    firstClose,   \* retry argument and cause of the first close()
    started,      \* asynchronous operations initiated, by kind
    nSend,        \* send() invocations
    lastCall,     \* the latest API call that reached send()
    lastReq,      \* the request the latest send() was given
    nReported,    \* report_error() invocations
    nOkReads,     \* successful reads whose handler has run
    nReceiveAbi,  \* receive_abi() invocations
    last,         \* what the latest step was
    lookup,       \* the latest get_type() call and what came of it
    delivered     \* what receive_result made of the payload in the step just taken

vars == <<hasSink, callbacks, sock, have_abi, abi_version, abi_types, resolve, connectOp, handshake,
          reads, writes, sinkLog, nClose, nUserClose, firstClose, started, nSend, lastCall,
          lastReq, nReported, nOkReads, nReceiveAbi, last, lookup,
          delivered>>

Statuses == {"pending", "ok", "err"}
NoOps == [s \in Statuses |-> 0]
Outstanding(f) == f["pending"] + f["ok"] + f["err"]
AddOp(f, st) == [f EXCEPT ![st] = @ + 1]
RemoveOp(f, st) == [f EXCEPT ![st] = @ - 1]
\* a closed socket completes every operation pending on it with an error
AbortAll(f) == [f EXCEPT !["pending"] = 0, !["err"] = @ + f["pending"]]
AbortOne(st) == IF st = "pending" THEN "err" ELSE st

\* an abi_type, known by the name it is registered under
Descriptor(name) == [name |-> name]
\* abi_type{}
DefaultDescriptor == Descriptor("")
Lookup(name, thrown, descriptor, what) ==
    [name |-> name, thrown |-> thrown, descriptor |-> descriptor, what |-> what]
NoLookup == Lookup("", FALSE, DefaultDescriptor, "")

\* an input_stream over a payload, known by where it stands in the payload
Span(at) == [at |-> at]
\* from_bin(result, bin): whether it succeeded, the alternative the variant is
\* left holding, and bin moved past what was consumed
from_bin(p, bin) ==
    [ok |-> p.decode_ok, result |-> p.kind,
     bin |-> Span(IF p.decode_ok THEN "end" ELSE "inside")]
Delivery(decode_ok, dispatched, result, span) ==
    [decode_ok |-> decode_ok, dispatched |-> dispatched, result |-> result, span |-> span]
NoDelivery == Delivery(TRUE, FALSE, "none", Span("none"))

NoClose == [retry |-> FALSE, cause |-> "none"]
\* a step: the action, the error code a handler was entered with, whether its
\* continuation threw, what receive_result returned, whether the exception left
\* the handler
Step(act, ec, thrown, ret, escaped) ==
    [act |-> act, ec |-> ec, thrown |-> thrown, ret |-> ret, escaped |-> escaped]
NoStep == Step("init", FALSE, FALSE, "none", FALSE)

\* the connection as one value: the operations below map it to its successor
Cur ==
    [callbacks |-> callbacks, sock |-> sock, have_abi |-> have_abi,
     abi_version |-> abi_version, abi_types |-> abi_types, resolve |-> resolve,
     connectOp |-> connectOp, handshake |-> handshake, reads |-> reads, writes |-> writes,
     sinkLog |-> sinkLog, nClose |-> nClose, firstClose |-> firstClose,
     started |-> started, nSend |-> nSend, lastCall |-> lastCall, lastReq |-> lastReq,
     nReported |-> nReported, nOkReads |-> nOkReads, nReceiveAbi |-> nReceiveAbi,
     delivered |-> NoDelivery]

Set(c) ==
    /\ callbacks' = c.callbacks
    /\ sock' = c.sock
    /\ have_abi' = c.have_abi
    /\ abi_version' = c.abi_version
    /\ abi_types' = c.abi_types
    /\ resolve' = c.resolve
    /\ connectOp' = c.connectOp
    /\ handshake' = c.handshake
    /\ reads' = c.reads
    /\ writes' = c.writes
    /\ sinkLog' = c.sinkLog
    /\ nClose' = c.nClose
    /\ firstClose' = c.firstClose
    /\ started' = c.started
    /\ nSend' = c.nSend
    /\ lastCall' = c.lastCall
    /\ lastReq' = c.lastReq
    /\ nReported' = c.nReported
    /\ nOkReads' = c.nOkReads
    /\ nReceiveAbi' = c.nReceiveAbi
    /\ delivered' = c.delivered

\* connection(ioc, config, callbacks): with a sink or with a null one
Init ==
    /\ hasSink \in BOOLEAN
    /\ callbacks = hasSink
    /\ sock = "closed"
    /\ have_abi = FALSE
    /\ abi_version = ""
    /\ abi_types = {}
    /\ resolve = "none"
    /\ connectOp = "none"
    /\ handshake = "none"
    /\ reads = NoOps
    /\ writes = NoOps
    /\ sinkLog = <<>>
    /\ nClose = 0
    /\ nUserClose = 0
    /\ firstClose = NoClose
    /\ started = [k \in {"resolve", "connect", "handshake", "read", "write"} |-> 0]
    /\ nSend = 0
    /\ lastCall = NoCall
    /\ lastReq = NoRequest
    /\ nReported = 0
    /\ nOkReads = 0
    /\ nReceiveAbi = 0
    /\ last = NoStep
    /\ lookup = NoLookup
    /\ delivered = NoDelivery

\* ------------------------------------------------------------ transport
async_resolve(c) ==
    [c EXCEPT !.resolve = "pending", !.started["resolve"] = @ + 1]

\* boost::asio::async_connect over the resolved range: opens the socket
async_connect(c) ==
    [c EXCEPT !.sock = "open", !.connectOp = "pending", !.started["connect"] = @ + 1]

async_handshake(c) ==
    [c EXCEPT !.handshake = IF c.sock = "connected" THEN "pending" ELSE "err",
              !.started["handshake"] = @ + 1]

async_read(c) ==
    [c EXCEPT !.reads = AddOp(@, IF c.sock = "ws" THEN "pending" ELSE "err"),
              !.started["read"] = @ + 1]

async_write(c) ==
    [c EXCEPT !.writes = AddOp(@, IF c.sock = "ws" THEN "pending" ELSE "err"),
              !.started["write"] = @ + 1]

\* stream.next_layer().close()
socket_close(c) ==
    [c EXCEPT !.sock = "closed", !.connectOp = AbortOne(@), !.handshake = AbortOne(@),
              !.reads = AbortAll(@), !.writes = AbortAll(@)]

report_error(c) == [c EXCEPT !.nReported = @ + 1]

\* ----------------------------------------------------------- connection
ClosedEvent(retry) == IF retry THEN "closed_true" ELSE "closed_false"
ClosedEvents == {"closed_true", "closed_false"}

\* close() without callbacks.reset()
close_keeps_sink(c, retry, cause) ==
    LET shut == [socket_close(c) EXCEPT
                    !.nClose = @ + 1,
                    !.firstClose = IF c.nClose = 0
                                   THEN [retry |-> retry, cause |-> cause] ELSE @]
    IN  IF shut.callbacks
        THEN [shut EXCEPT !.sinkLog = Append(@, ClosedEvent(retry))]
        ELSE shut

\* close(retry); cause records who called it
close(c, retry, cause) ==
    LET shut == [socket_close(c) EXCEPT
                    !.nClose = @ + 1,
                    !.firstClose = IF c.nClose = 0
                                   THEN [retry |-> retry, cause |-> cause] ELSE @]
        told == IF shut.callbacks
                THEN [shut EXCEPT !.sinkLog = Append(@, ClosedEvent(retry))]
                ELSE shut
    IN  [told EXCEPT !.callbacks = FALSE]

\* on_fail() closing without the retry hint
on_fail_no_retry(c) == close(c, FALSE, "transport")

\* on_fail() that issues the read again in place of closing
on_fail_reads_again(c) == [async_read(c) EXCEPT !.started = c.started]

\* on_fail(ec, what): close(true); the try/catch around it has nothing to
\* catch, close() not throwing
on_fail(c) == close(c, TRUE, "transport")

\* start_read() issuing a second read beside the first
start_read_twice(c) == async_read(async_read(c))

start_read(c) == async_read(c)

\* send() that holds a request back while a write is outstanding
send_queued(c, req, encodes) ==
    LET called == [c EXCEPT !.nSend = @ + 1, !.lastReq = req]
        conv == IF ~encodes THEN report_error(called) ELSE called
    IN  IF Outstanding(c.writes) > 0 THEN conv ELSE async_write(conv)

\* send(req), lines 153-161
send(c, req, encodes) ==
    LET called == [c EXCEPT !.nSend = @ + 1, !.lastReq = req]
        conv == IF ~encodes THEN report_error(called) ELSE called
    IN  async_write(conv)

\* request_blocks() that ends the range at the block it starts from
request_blocks_one_block(c, start_block_num, positions, encodes) ==
    send(c, GetBlocksRequest(start_block_num, start_block_num, Max32, positions,
                             FALSE, TRUE, TRUE, TRUE), encodes)

request_blocks(c, start_block_num, positions, encodes) ==
    send(c, GetBlocksRequest(start_block_num, Max32, Max32, positions,
                             FALSE, TRUE, TRUE, TRUE), encodes)

Min2(a, b) == IF a < b THEN a ELSE b
Max2(a, b) == IF a < b THEN b ELSE a

\* request_blocks(status, ...) that starts from the later of the two begins
request_blocks_status_latest(c, status, start_block_num, positions, encodes) ==
    LET t == IF status.trace_begin_block < status.trace_end_block
             THEN status.trace_begin_block ELSE 0
        s == IF status.chain_state_begin_block < status.chain_state_end_block
             THEN status.chain_state_begin_block ELSE 0
    IN  request_blocks(c, Max2(start_block_num, Max2(t, s)), positions, encodes)

\* request_blocks(status, ...) that passes start_block_num on as given
request_blocks_status_unclamped(c, status, start_block_num, positions, encodes) ==
    request_blocks(c, start_block_num, positions, encodes)

\* request_blocks(status, start_block_num, positions), lines 134-144
request_blocks_status(c, status, start_block_num, positions, encodes) ==
    LET n0 == Max32
        n1 == IF status.trace_begin_block < status.trace_end_block
              THEN Min2(n0, status.trace_begin_block) ELSE n0
        n2 == IF status.chain_state_begin_block < status.chain_state_end_block
              THEN Min2(n1, status.chain_state_begin_block) ELSE n1
        nodeos_start == IF n2 = Max32 THEN 0 ELSE n2
    IN  request_blocks(c, Max2(start_block_num, nodeos_start), positions, encodes)

\* an API call, from the caller or from inside a sink callback
Call(c, call) ==
    LET noted == [c EXCEPT !.lastCall = call]
    IN  CASE call.api = "send" -> send(noted, call.req, call.encodes)
          [] call.api = "request_blocks" ->
                request_blocks(noted, call.start, call.positions, call.encodes)
          [] call.api = "request_blocks_status" ->
                request_blocks_status(noted, call.status, call.start, call.positions,
                                      call.encodes)
          [] OTHER -> c

\* what a sink callback does: at most one call on the connection, then it
\* returns true or false, or throws
SinkBehaviours(c) ==
    IF c.callbacks
    THEN [call : {NoCall} \cup (IF c.nSend < MaxSends THEN ApiCalls ELSE {}),
          outcome : {"true", "false", "throw"}]
    ELSE {[call |-> NoCall, outcome |-> "true"]}

\* what a read can deliver: the payload is the interface definition until
\* have_abi, a result afterwards
Payloads(c) == IF c.have_abi THEN ResultPayloads ELSE AbiPayloads

Sink(c, event, b) == Call([c EXCEPT !.sinkLog = Append(@, event)], b.call)

\* the outcome of a continuation
Outcome(c, thrown, ret) == [c |-> c, thrown |-> thrown, ret |-> ret, escaped |-> FALSE]

BuiltinTypes == {"uint32"}

\* receive_abi() that never sets have_abi
receive_abi_no_flag(c, p, b) ==
    LET parsed == [c EXCEPT !.abi_version = p.version, !.nReceiveAbi = @ + 1]
        built == [parsed EXCEPT !.abi_types = BuiltinTypes \cup p.types]
    IN  IF ~p.json_ok \/ ~check_abi_version(p.version) \/ ~p.convert_ok
        THEN Outcome(parsed, TRUE, "none")
        ELSE IF built.callbacks
             THEN Outcome(Sink(built, "received_abi", b), b.outcome = "throw", "none")
             ELSE Outcome(built, FALSE, "none")

\* receive_abi() that builds the registry before it checks the version
receive_abi_builds_first(c, p, b) ==
    LET parsed == [c EXCEPT !.abi_version = p.version, !.nReceiveAbi = @ + 1]
        early == [parsed EXCEPT !.abi_types = BuiltinTypes \cup p.types]
        built == [early EXCEPT !.have_abi = TRUE]
    IN  IF ~p.json_ok THEN Outcome(parsed, TRUE, "none")
        ELSE IF ~check_abi_version(p.version) \/ ~p.convert_ok
        THEN Outcome(early, TRUE, "none")
        ELSE IF built.callbacks
             THEN Outcome(Sink(built, "received_abi", b), b.outcome = "throw", "none")
             ELSE Outcome(built, FALSE, "none")

receive_abi(c, p, b) ==
    LET parsed == [c EXCEPT !.abi_version = p.version, !.nReceiveAbi = @ + 1]
        built == [parsed EXCEPT !.abi_types = BuiltinTypes \cup p.types, !.have_abi = TRUE]
    IN  IF ~p.json_ok \/ ~check_abi_version(p.version) \/ ~p.convert_ok
        THEN Outcome(parsed, TRUE, "none")
        ELSE IF built.callbacks
             THEN Outcome(Sink(built, "received_abi", b), b.outcome = "throw", "none")
             ELSE Outcome(built, FALSE, "none")

\* receive_result() dispatching without testing the sink reference
receive_result_unguarded(c, p, b) ==
    LET orig == Span("begin")
        d == from_bin(p, orig)
        dec == IF ~d.ok THEN report_error(c) ELSE c
        given == [dec EXCEPT !.delivered = Delivery(d.ok, TRUE, d.result, orig)]
    IN  Outcome(Sink(given, "received_" \o d.result, b), b.outcome = "throw", b.outcome)

\* receive_result() giving up on a payload that does not decode
receive_result_stops_on_error(c, p, b) ==
    LET orig == Span("begin")
        d == from_bin(p, orig)
        dec == IF ~d.ok THEN report_error(c) ELSE c
        kept == [dec EXCEPT !.delivered = Delivery(d.ok, FALSE, d.result, Span("none"))]
        given == [dec EXCEPT !.delivered = Delivery(d.ok, TRUE, d.result, orig)]
    IN  IF dec.callbacks /\ d.ok
        THEN Outcome(Sink(given, "received_" \o d.result, b), b.outcome = "throw", b.outcome)
        ELSE Outcome(kept, FALSE, IF dec.callbacks THEN "false" ELSE "nosink")

\* receive_result() that takes a missing sink for one that returned true
receive_result_no_sink_continues(c, p, b) ==
    LET orig == Span("begin")
        d == from_bin(p, orig)
        dec == IF ~d.ok THEN report_error(c) ELSE c
        kept == [dec EXCEPT !.delivered = Delivery(d.ok, FALSE, d.result, Span("none"))]
        given == [dec EXCEPT !.delivered = Delivery(d.ok, TRUE, d.result, orig)]
    IN  IF dec.callbacks
        THEN Outcome(Sink(given, "received_" \o d.result, b), b.outcome = "throw", b.outcome)
        ELSE Outcome(kept, FALSE, "true")

\* receive_result(p), lines 110-119
receive_result(c, p, b) ==
    LET orig == Span("begin")
        d == from_bin(p, orig)
        dec == IF ~d.ok THEN report_error(c) ELSE c
        kept == [dec EXCEPT !.delivered = Delivery(d.ok, FALSE, d.result, Span("none"))]
        given == [dec EXCEPT !.delivered = Delivery(d.ok, TRUE, d.result, orig)]
    IN  IF dec.callbacks
        THEN Outcome(Sink(given, "received_" \o d.result, b), b.outcome = "throw", b.outcome)
        ELSE Outcome(kept, FALSE, "nosink")

\* the continuation without the return after close(false)
on_read_no_return(c, p, b) ==
    IF ~c.have_abi
    THEN LET r == receive_abi(c, p, b)
         IN  IF r.thrown THEN r ELSE Outcome(start_read(r.c), FALSE, "none")
    ELSE LET r == receive_result(c, p, b)
         IN  IF r.thrown THEN r
             ELSE IF r.ret # "true"
                  THEN Outcome(start_read(close(r.c, FALSE, "dispatch")), FALSE, r.ret)
             ELSE Outcome(start_read(r.c), FALSE, r.ret)

\* the continuation taking every payload for a result
on_read_skips_bootstrap(c, p, b) ==
    LET q == IF c.have_abi THEN p ELSE [decode_ok |-> FALSE, kind |-> "status"]
        r == receive_result(c, q, b)
    IN  IF r.thrown THEN r
        ELSE IF r.ret # "true" THEN Outcome(close(r.c, FALSE, "dispatch"), FALSE, r.ret)
        ELSE Outcome(start_read(r.c), FALSE, r.ret)

\* the continuation of async_read (lines 81-89)
on_read(c, p, b) ==
    IF ~c.have_abi
    THEN LET r == receive_abi(c, p, b)
         IN  IF r.thrown THEN r ELSE Outcome(start_read(r.c), FALSE, "none")
    ELSE LET r == receive_result(c, p, b)
         IN  IF r.thrown THEN r
             ELSE IF r.ret # "true" THEN Outcome(close(r.c, FALSE, "dispatch"), FALSE, r.ret)
             ELSE Outcome(start_read(r.c), FALSE, r.ret)

\* catch_and_close() letting the exception through
catch_and_close_rethrows(r) ==
    IF r.thrown THEN [r EXCEPT !.escaped = TRUE] ELSE r

\* catch_and_close(f), given what f did
catch_and_close(r) ==
    IF r.thrown THEN [r EXCEPT !.c = close(r.c, FALSE, "exception")] ELSE r

\* enter_callback() running f whatever ec says
enter_callback_ignores_error(c, ec, r) == catch_and_close(r)

\* enter_callback(ec, what, f), given what f would do
enter_callback(c, ec, r) ==
    IF ec THEN Outcome(on_fail(c), FALSE, "none") ELSE catch_and_close(r)

Done(c, act, ec, r) ==
    /\ Set(r.c)
    /\ last' = Step(act, ec, r.thrown, r.ret, r.escaped)
    /\ UNCHANGED <<lookup, hasSink, nUserClose>>

\* ----------------------------------------------------------- public API
Connect ==
    /\ resolve = "none"
    /\ Set(async_resolve(Cur))
    /\ last' = Step("connect", FALSE, FALSE, "none", FALSE)
    /\ UNCHANGED <<lookup, hasSink, nUserClose>>

UserCall ==
    /\ nSend < MaxSends
    /\ \E call \in ApiCalls :
          /\ Set(Call(Cur, call))
          /\ last' = Step(call.api, FALSE, FALSE, "none", FALSE)
    /\ UNCHANGED <<lookup, hasSink, nUserClose>>

UserClose ==
    /\ nUserClose < MaxUserCloses
    /\ \E retry \in BOOLEAN : Set(close(Cur, retry, "user"))
    /\ nUserClose' = nUserClose + 1
    /\ last' = Step("close", FALSE, FALSE, "none", FALSE)
    /\ UNCHANGED <<lookup, hasSink>>

LookupNames == BuiltinTypes \cup TypeNames \cup {"undeclared"}

\* get_type() written with the map's subscript: a default entry is made
get_type_subscript(c, name) ==
    [c |-> [c EXCEPT !.abi_types = @ \cup {name}],
     r |-> Lookup(name, FALSE,
                  IF name \in c.abi_types THEN Descriptor(name) ELSE DefaultDescriptor, "")]

\* get_type(name), lines 146-151
get_type(c, name) ==
    IF name \in c.abi_types
    THEN [c |-> c, r |-> Lookup(name, FALSE, Descriptor(name), "")]
    ELSE [c |-> c, r |-> Lookup(name, TRUE, DefaultDescriptor, "unknown type " \o name)]

GetType ==
    /\ \E name \in LookupNames :
          LET g == get_type(Cur, name)
          IN  Set(g.c) /\ lookup' = g.r
    /\ last' = Step("get_type", FALSE, FALSE, "none", FALSE)
    /\ UNCHANGED <<hasSink, nUserClose>>

\* ------------------------------------------------- transport completions
Transport == Step("transport", FALSE, FALSE, "none", FALSE)

ResolveCompletes ==
    /\ resolve = "pending"
    /\ resolve' \in {"ok", "err"}
    /\ last' = Transport
    /\ UNCHANGED <<lookup, delivered, hasSink, callbacks, sock, have_abi, abi_version, abi_types, connectOp, handshake,
                   reads, writes, sinkLog, nClose, nUserClose, firstClose, started, nSend,
                   lastCall, lastReq, nReported, nOkReads, nReceiveAbi>>

ConnectCompletes ==
    /\ connectOp = "pending"
    /\ \/ connectOp' = "ok" /\ sock' = "connected"
       \/ connectOp' = "err" /\ sock' = sock
    /\ last' = Transport
    /\ UNCHANGED <<lookup, delivered, hasSink, callbacks, have_abi, abi_version, abi_types, resolve, handshake,
                   reads, writes, sinkLog, nClose, nUserClose, firstClose, started, nSend,
                   lastCall, lastReq, nReported, nOkReads, nReceiveAbi>>

HandshakeCompletes ==
    /\ handshake = "pending"
    /\ \/ handshake' = "ok" /\ sock' = "ws"
       \/ handshake' = "err" /\ sock' = sock
    /\ last' = Transport
    /\ UNCHANGED <<lookup, delivered, hasSink, callbacks, have_abi, abi_version, abi_types, resolve, connectOp,
                   reads, writes, sinkLog, nClose, nUserClose, firstClose, started, nSend,
                   lastCall, lastReq, nReported, nOkReads, nReceiveAbi>>

ReadCompletes ==
    /\ reads["pending"] > 0
    /\ \/ /\ nOkReads + reads["ok"] < MaxPayloads
          /\ reads' = AddOp(RemoveOp(reads, "pending"), "ok")
       \/ reads' = AddOp(RemoveOp(reads, "pending"), "err")
    /\ last' = Transport
    /\ UNCHANGED <<lookup, delivered, hasSink, callbacks, sock, have_abi, abi_version, abi_types, resolve, connectOp,
                   handshake, writes, sinkLog, nClose, nUserClose, firstClose, started, nSend,
                   lastCall, lastReq, nReported, nOkReads, nReceiveAbi>>

WriteCompletes ==
    /\ writes["pending"] > 0
    /\ \/ writes' = AddOp(RemoveOp(writes, "pending"), "ok")
       \/ writes' = AddOp(RemoveOp(writes, "pending"), "err")
    /\ last' = Transport
    /\ UNCHANGED <<lookup, delivered, hasSink, callbacks, sock, have_abi, abi_version, abi_types, resolve, connectOp,
                   handshake, reads, sinkLog, nClose, nUserClose, firstClose, started, nSend,
                   lastCall, lastReq, nReported, nOkReads, nReceiveAbi>>

\* --------------------------------------------------- completion handlers
\* lines 59-74
OnResolve ==
    /\ resolve \in {"ok", "err"}
    /\ LET c == [Cur EXCEPT !.resolve = "done"]
       IN  Done(c, "on_resolve", resolve = "err",
                enter_callback(c, resolve = "err", Outcome(async_connect(c), FALSE, "none")))

\* lines 63-72
OnConnect ==
    /\ connectOp \in {"ok", "err"}
    /\ LET c == [Cur EXCEPT !.connectOp = "done"]
       IN  Done(c, "on_connect", connectOp = "err",
                enter_callback(c, connectOp = "err", Outcome(async_handshake(c), FALSE, "none")))

\* lines 66-70
OnHandshake ==
    /\ handshake \in {"ok", "err"}
    /\ LET c == [Cur EXCEPT !.handshake = "done"]
       IN  Done(c, "on_handshake", handshake = "err",
                enter_callback(c, handshake = "err", Outcome(start_read(c), FALSE, "none")))

\* lines 79-91, a read that completed without error
OnReadOk ==
    /\ reads["ok"] > 0
    /\ LET c == [Cur EXCEPT !.reads = RemoveOp(@, "ok"), !.nOkReads = @ + 1]
       IN  \E p \in Payloads(c), b \in SinkBehaviours(c) :
              Done(c, "on_read", FALSE, enter_callback(c, FALSE, on_read(c, p, b)))

\* lines 79-91, a read that completed with an error
OnReadErr ==
    /\ reads["err"] > 0
    /\ LET c == [Cur EXCEPT !.reads = RemoveOp(@, "err")]
       IN  Done(c, "on_read", TRUE, enter_callback(c, TRUE, Outcome(c, FALSE, "none")))

\* lines 158-160
OnWrite ==
    /\ \E st \in {"ok", "err"} :
          /\ writes[st] > 0
          /\ LET c == [Cur EXCEPT !.writes = RemoveOp(@, st)]
             IN  Done(c, "on_write", st = "err",
                      enter_callback(c, st = "err", Outcome(c, FALSE, "none")))

Next ==
    \/ Connect
    \/ UserCall
    \/ UserClose
    \/ ResolveCompletes
    \/ ConnectCompletes
    \/ HandshakeCompletes
    \/ ReadCompletes
    \/ WriteCompletes
    \/ OnResolve
    \/ OnConnect
    \/ OnHandshake
    \/ OnReadOk
    \/ OnReadErr
    \/ OnWrite

Spec == Init /\ [][Next]_vars

\* the io_context at work: an operation completes or a queued handler runs
Scheduled ==
    \/ ResolveCompletes
    \/ ConnectCompletes
    \/ HandshakeCompletes
    \/ ReadCompletes
    \/ WriteCompletes
    \/ OnResolve
    \/ OnConnect
    \/ OnHandshake
    \/ OnReadOk
    \/ OnReadErr
    \/ OnWrite

\* an owner that asks nothing more of a connection once it has closed
OwnerConnect == nClose = 0 /\ Connect
OwnerCall == nClose = 0 /\ UserCall

NextLive ==
    \/ OwnerConnect
    \/ OwnerCall
    \/ UserClose
    \/ Scheduled

\* io_context::run() keeps going while there is work: a pending operation
\* completes in the end and a queued handler is run
SpecLive == Init /\ [][NextLive]_vars /\ WF_vars(Scheduled)

\* the connection with an owner that only looks types up
NextLookup ==
    \/ Connect
    \/ GetType
    \/ ResolveCompletes
    \/ ConnectCompletes
    \/ HandshakeCompletes
    \/ ReadCompletes
    \/ WriteCompletes
    \/ OnResolve
    \/ OnConnect
    \/ OnHandshake
    \/ OnReadOk
    \/ OnReadErr
    \/ OnWrite

SpecLookup == Init /\ [][NextLookup]_vars

\* ------------------------------------------------- request building
\* a connection that is streaming: bootstrap done, one read in flight
Streaming ==
    /\ hasSink = TRUE
    /\ callbacks = TRUE
    /\ sock = "ws"
    /\ have_abi = TRUE
    /\ abi_version = "eosio::abi/1.1"
    /\ abi_types = BuiltinTypes \cup TypeNames
    /\ resolve = "done"
    /\ connectOp = "done"
    /\ handshake = "done"
    /\ reads = AddOp(NoOps, "pending")
    /\ writes = NoOps
    /\ sinkLog = <<"received_abi">>
    /\ nClose = 0
    /\ nUserClose = 0
    /\ firstClose = NoClose
    /\ started = [k \in {"resolve", "connect", "handshake", "read", "write"} |->
                     IF k = "read" THEN 2 ELSE IF k = "write" THEN 0 ELSE 1]
    /\ nSend = 0
    /\ lastCall = NoCall
    /\ lastReq = NoRequest
    /\ nReported = 0
    /\ nOkReads = 1
    /\ nReceiveAbi = 1
    /\ last = Step("on_read", FALSE, FALSE, "none", FALSE)
    /\ lookup = NoLookup
    /\ delivered = NoDelivery

\* request_blocks(start_block_num, positions), over all the modelled arguments
RequestBlocks ==
    /\ nSend < MaxSends
    /\ \E call \in RequestBlocksCalls :
          /\ Set(Call(Cur, call))
          /\ last' = Step(call.api, FALSE, FALSE, "none", FALSE)
    /\ UNCHANGED <<lookup, hasSink, nUserClose>>

\* request_blocks(status, start_block_num, positions), over the modelled statuses
RequestBlocksStatus ==
    /\ nSend < MaxSends
    /\ \E call \in RequestBlocksStatusCalls :
          /\ Set(Call(Cur, call))
          /\ last' = Step(call.api, FALSE, FALSE, "none", FALSE)
    /\ UNCHANGED <<lookup, hasSink, nUserClose>>

NextReq ==
    \/ RequestBlocks
    \/ RequestBlocksStatus
    \/ WriteCompletes
    \/ OnWrite

SpecReq == Streaming /\ [][NextReq]_vars

\* ------------------------------------------------------------- claims
Handlers == {"on_resolve", "on_connect", "on_handshake", "on_read", "on_write"}
ClosedCalls == {i \in DOMAIN sinkLog : sinkLog[i] \in ClosedEvents}

C4_NoOperationAfterClose ==
    [][nClose > 0 /\ last'.act \in Handlers => started' = started]_vars

C7_OneReadAtATime ==
    /\ Outstanding(reads) <= 1
    /\ started["read"] <= nOkReads + 1

\* the third read of a session is in flight
C7_Witness ==
    /\ started["read"] = 3
    /\ reads["pending"] = 1
    /\ nOkReads = 2

\* C8: receive_abi runs at most once and only for the first payload read
\* without error; have_abi never goes back to false; the registry changes
\* only from empty, while have_abi is false, and never once have_abi holds.
C8_BootstrapWriteOnce ==
    /\ [](nReceiveAbi <= 1)
    /\ [][/\ nReceiveAbi' # nReceiveAbi => nOkReads = 0 /\ nOkReads' = 1
          /\ have_abi => have_abi' /\ abi_types' = abi_types
          /\ abi_types' # abi_types => abi_types = {} /\ ~have_abi /\ have_abi'
          /\ have_abi' /\ ~have_abi => nReceiveAbi' # nReceiveAbi]_vars

\* a result was read and dispatched after the bootstrap
C8_Witness ==
    /\ have_abi
    /\ nReceiveAbi = 1
    /\ nOkReads = 2
    /\ last.act = "on_read" /\ last.ret = "true"

UnsupportedVersion == "eosio::abi/9.0"

\* C9 (as amended): a first payload with an unsupported version leaves the
\* registry empty and have_abi false, fires no received_abi, runs close(false)
\* once, which delivers closed(false) exactly when the sink reference was
\* still held, and no read is started then or later.
C9_UnsupportedVersionStops ==
    /\ [](abi_version = UnsupportedVersion =>
            /\ ~check_abi_version(abi_version)
            /\ abi_types = {} /\ ~have_abi
            /\ \A i \in DOMAIN sinkLog : sinkLog[i] # "received_abi"
            /\ nClose >= 1 /\ ~callbacks
            /\ Outstanding(reads) = 0)
    /\ [][/\ abi_version = UnsupportedVersion => started'["read"] = started["read"]
          /\ abi_version' = UnsupportedVersion /\ abi_version # UnsupportedVersion =>
                /\ last'.act = "on_read" /\ last'.thrown
                /\ nClose' = nClose + 1
                /\ started'["read"] = started["read"]
                /\ sinkLog' = IF callbacks THEN Append(sinkLog, "closed_false")
                                            ELSE sinkLog]_vars

\* the sink is told closed(false) for the unsupported version
C9_Witness ==
    /\ abi_version = UnsupportedVersion
    /\ last.act = "on_read" /\ last.thrown
    /\ sinkLog = <<"closed_false">>
    /\ firstClose = [retry |-> FALSE, cause |-> "exception"]

\* C9 as stated: the unsupported version always ends in a closed(false)
\* notification.
C9_UnsupportedVersionNotifies ==
    abi_version = UnsupportedVersion =>
        sinkLog # <<>> /\ sinkLog[Len(sinkLog)] = "closed_false"

\* C10: every request_blocks(start_block_num, positions) call makes one
\* send(), which starts one write, of the get_blocks_request_v0 with the
\* start and positions given and the fixed remaining fields.
C10_RequestBlocksFields ==
    [][nSend' # nSend /\ lastCall'.api = "request_blocks" =>
          /\ nSend' = nSend + 1
          /\ started'["write"] = started["write"] + 1
          /\ Outstanding(writes') = Outstanding(writes) + 1
          /\ lastReq' = [type |-> "get_blocks_request_v0",
                         start_block_num |-> lastCall'.start,
                         end_block_num |-> Max32,
                         max_messages_in_flight |-> Max32,
                         have_positions |-> lastCall'.positions,
                         irreversible_only |-> FALSE,
                         fetch_block |-> TRUE,
                         fetch_traces |-> TRUE,
                         fetch_deltas |-> TRUE]]_vars

\* request_blocks(42, {}) was called and its write is in flight
C10_Witness ==
    /\ last.act = "request_blocks"
    /\ lastCall.start = 42 /\ lastCall.positions = <<>>
    /\ lastReq.start_block_num = 42 /\ lastReq.end_block_num = Max32
    /\ writes["pending"] = 1

\* the begin bounds of the ranges of a status that hold blocks
ValidBegins(status) ==
    (IF status.trace_begin_block < status.trace_end_block
     THEN {status.trace_begin_block} ELSE {}) \cup
    (IF status.chain_state_begin_block < status.chain_state_end_block
     THEN {status.chain_state_begin_block} ELSE {})
Least(S) == CHOOSE x \in S : \A y \in S : x <= y
NodeosStart(status) == IF ValidBegins(status) = {} THEN 0 ELSE Least(ValidBegins(status))

\* C11: request_blocks(status, start_block_num, positions) sends the request
\* of request_blocks(max(start_block_num, nodeos_start), positions), where
\* nodeos_start is the least begin bound of the valid ranges of status, and 0
\* when no range is valid.
C11_StartIsMaxOfStartAndNodeosStart ==
    [][nSend' # nSend /\ lastCall'.api = "request_blocks_status" =>
          /\ nSend' = nSend + 1
          /\ lastReq'.type = "get_blocks_request_v0"
          /\ lastReq'.start_block_num =
                 Max2(lastCall'.start, NodeosStart(lastCall'.status))
          /\ lastReq'.have_positions = lastCall'.positions
          /\ lastReq'.end_block_num = Max32]_vars

\* trace 5..10, empty chain_state, start 1: the request starts at 5
C11_Witness ==
    /\ last.act = "request_blocks_status"
    /\ lastCall.status = StatusResult(5, 10, 0, 0)
    /\ lastCall.start = 1
    /\ lastReq.start_block_num = 5

\* C15 (as amended): the request starts at or after start_block_num and at or
\* after the least begin bound of the valid ranges of status.
C15_StartNotBelowLeastBegin ==
    [][nSend' # nSend /\ lastCall'.api = "request_blocks_status" =>
          /\ lastReq'.start_block_num >= lastCall'.start
          /\ \E b \in ValidBegins(lastCall'.status) \cup {0} :
                /\ \A v \in ValidBegins(lastCall'.status) : b <= v
                /\ lastReq'.start_block_num >= b
          /\ ValidBegins(lastCall'.status) # {} =>
                \E v \in ValidBegins(lastCall'.status) : lastReq'.start_block_num >= v]_vars

\* both ranges valid with different begins: the request starts below the
\* begin of the trace range
C15_Witness ==
    /\ last.act = "request_blocks_status"
    /\ lastCall.status = StatusResult(5, 10, 0, 10)
    /\ lastCall.start = 1
    /\ lastReq.start_block_num = 1

\* C15 as stated: the request starts at or after the begin bound of every
\* valid range of status.
C15_StartNotBelowAnyBegin ==
    lastCall.api = "request_blocks_status" =>
        \A v \in ValidBegins(lastCall.status) : lastReq.start_block_num >= v

\* C12: get_type(name) returns the descriptor registered under name exactly
\* when name is a key of the registry and throws "unknown type <name>" in
\* every other case, so for every name while have_abi is false; it returns no
\* default descriptor and leaves the registry as it was.
C12_GetTypeFindsOrThrows ==
    [][last'.act = "get_type" =>
          /\ lookup'.thrown <=> lookup'.name \notin abi_types
          /\ ~lookup'.thrown => lookup'.descriptor = Descriptor(lookup'.name)
          /\ lookup'.thrown => lookup'.what = "unknown type " \o lookup'.name
          /\ lookup'.descriptor # DefaultDescriptor \/ lookup'.thrown
          /\ ~have_abi => lookup'.thrown
          /\ abi_types' = abi_types /\ have_abi' = have_abi]_vars

\* an undeclared name was looked up after the bootstrap
C12_Witness ==
    /\ last.act = "get_type"
    /\ have_abi /\ abi_types = BuiltinTypes \cup TypeNames
    /\ lookup.name = "undeclared" /\ lookup.thrown

\* C13: in send(request), when encoding the request fails, the failure is
\* reported and no write is started for that request; a write is started only
\* for a request that encoded.
C13_EncodingFailureStartsNoWrite ==
    [][nSend' = nSend + 1 =>
          /\ ~lastCall'.encodes =>
                nReported' > nReported /\ started'["write"] = started["write"]
          /\ started'["write"] > started["write"] => lastCall'.encodes]_vars

ResultEvents == {"received_status", "received_blocks"}
Positions(event) == {i \in DOMAIN sinkLog : sinkLog[i] = event}

\* C14: received_abi() is invoked at most once, with the registry populated
\* and have_abi true; every received(result) comes after it; no payload is
\* dispatched as a result while have_abi is false.
C14_SinkCallbacksOrdered ==
    /\ [](/\ Cardinality(Positions("received_abi")) <= 1
          /\ Positions("received_abi") # {} => have_abi /\ BuiltinTypes \subseteq abi_types
          /\ \A i \in DOMAIN sinkLog :
                sinkLog[i] \in ResultEvents =>
                    \E j \in Positions("received_abi") : j < i)
    /\ [][\A i \in DOMAIN sinkLog' \ DOMAIN sinkLog :
            /\ sinkLog'[i] \in ResultEvents => have_abi /\ last'.act = "on_read"
            /\ sinkLog'[i] = "received_abi" =>
                  ~have_abi /\ have_abi' /\ abi_types = {} /\ abi_types' # {}]_vars

\* the sink saw the interface definition and then a result
C14_Witness ==
    /\ Len(sinkLog) = 2
    /\ sinkLog[1] = "received_abi"
    /\ sinkLog[2] \in ResultEvents
    /\ last.act = "on_read"

\* C16: when decoding a result payload fails, the error is reported and
\* receive_result still hands the sink the value the decode left, with the
\* original byte span; if the sink then returns true, nothing is closed and
\* the next read is started.
C16_DecodeFailureStillDispatches ==
    [][(last'.act = "on_read" /\ callbacks
            /\ delivered'.result # "none" /\ ~delivered'.decode_ok) =>
          /\ nReported' > nReported
          /\ delivered'.dispatched
          /\ delivered'.span = Span("begin")
          /\ Len(sinkLog') > Len(sinkLog)
          /\ sinkLog'[Len(sinkLog) + 1] = "received_" \o delivered'.result
          /\ last'.ret = "true" =>
                /\ nClose' = nClose /\ sock' = sock
                /\ started'["read"] = started["read"] + 1]_vars

\* a payload that did not decode went to the sink and the loop went on
C16_Witness ==
    /\ delivered.result # "none" /\ ~delivered.decode_ok
    /\ delivered.dispatched
    /\ last.act = "on_read" /\ last.ret = "true"
    /\ nReported = 1 /\ nClose = 0
    /\ reads["pending"] = 1

\* C17: send does not wait for or queue behind a pending write: every call
\* starts one more write, whatever is outstanding, so two writes can be
\* outstanding on the transport at once.
C17_WritesNotSerialized ==
    [][nSend' = nSend + 1 =>
          /\ started'["write"] = started["write"] + 1
          /\ Outstanding(writes') = Outstanding(writes) + 1
          /\ sock = "ws" /\ sock' = "ws" => writes'["pending"] = writes["pending"] + 1]_vars

\* a second request was sent before the first write completed
C17_Witness ==
    /\ writes["pending"] = 2
    /\ nSend = 2
    /\ last.act \in {"send", "request_blocks"}

ConnectSteps == {"on_resolve", "on_connect", "on_handshake"}

\* C18: connect() drives the steps in order: the transport connect is started
\* only by the resolve that completed without error, the handshake only by
\* the connect that did, the first read only by the handshake that did; a
\* step that failed starts nothing and goes to on_fail, which is close(true).
C18_ConnectStepsInOrder ==
    [][/\ started'["connect"] # started["connect"] =>
             /\ last'.act = "on_resolve" /\ resolve = "ok"
             /\ started'["connect"] = started["connect"] + 1
       /\ started'["handshake"] # started["handshake"] =>
             /\ last'.act = "on_connect" /\ connectOp = "ok"
             /\ started'["handshake"] = started["handshake"] + 1
       /\ started["read"] = 0 /\ started'["read"] # 0 =>
             /\ last'.act = "on_handshake" /\ handshake = "ok"
             /\ started'["read"] = 1
       /\ last'.act = "on_resolve" /\ ~last'.ec =>
             started'["connect"] = started["connect"] + 1
       /\ last'.act = "on_connect" /\ ~last'.ec =>
             started'["handshake"] = started["handshake"] + 1
       /\ last'.act = "on_handshake" /\ ~last'.ec =>
             started'["read"] = started["read"] + 1
       /\ last'.act \in ConnectSteps /\ last'.ec =>
             /\ started' = started
             /\ nClose' = nClose + 1
             /\ nClose = 0 => firstClose' = [retry |-> TRUE, cause |-> "transport"]
             /\ callbacks => sinkLog' = Append(sinkLog, "closed_true")]_vars

\* the three steps succeeded in turn and the first read is pending
C18_Witness ==
    /\ last.act = "on_handshake" /\ ~last.ec
    /\ resolve = "done" /\ connectOp = "done" /\ handshake = "done"
    /\ started = [k \in DOMAIN started |-> IF k = "write" THEN 0 ELSE 1]
    /\ reads["pending"] = 1

\* C19: with no sink held (none given, or the reference released) no result
\* is forwarded: receive_result yields false for the payload, and the read
\* that delivered it is followed by close(false) and by no further read.
C19_NoSinkStopsLoop ==
    [][(last'.act = "on_read" /\ ~last'.ec /\ have_abi /\ ~callbacks) =>
          /\ delivered'.result # "none" /\ ~delivered'.dispatched
          /\ last'.ret = "nosink" /\ ~last'.thrown
          /\ sinkLog' = sinkLog
          /\ nClose' = nClose + 1
          /\ nClose = 0 => firstClose' = [retry |-> FALSE, cause |-> "dispatch"]
          /\ started'["read"] = started["read"]
          /\ sock' = "closed" /\ reads'["pending"] = 0]_vars

\* a connection built without a sink closed at its first result
C19_Witness ==
    /\ ~hasSink
    /\ last.act = "on_read" /\ last.ret = "nosink"
    /\ nOkReads = 2 /\ nReceiveAbi = 1
    /\ nClose = 1 /\ firstClose = [retry |-> FALSE, cause |-> "dispatch"]
    /\ Outstanding(reads) = 0

Quiescent ==
    /\ resolve \in {"none", "done"}
    /\ connectOp \in {"none", "done"}
    /\ handshake \in {"none", "done"}
    /\ Outstanding(reads) = 0
    /\ Outstanding(writes) = 0

TypeOK ==
    /\ callbacks \in BOOLEAN
    /\ sock \in {"closed", "open", "connected", "ws"}
    /\ have_abi \in BOOLEAN
    /\ Outstanding(reads) \in 0..2
    /\ Outstanding(writes) \in 0..MaxSends

\* violated by Spec: the state SpecReq starts from is one Spec reaches
NotStreaming == ~Streaming

====
